---- MODULE Spec2Model ----
(***************************************************************************)
(* Code-jam team management of sir-robin: the confirmation views of        *)
(* bot/exts/code_jams/_views.py, its team button, and the create, end,     *)
(* move and remove commands of bot/exts/code_jams/_cog.py.                 *)
(*                                                                         *)
(* Part I models the three confirmation views.  A view is a discord.ui     *)
(* View: an interaction on one of its buttons is dispatched as its own     *)
(* task, which first awaits interaction_check and then the button's        *)
(* callback; a callback runs without interruption up to its next await.    *)
(* A view that has been stopped (or has timed out) is no longer in the     *)
(* view store and receives nothing.                                        *)
(*                                                                         *)
(* Part II models move and remove, one step per awaited call.              *)
(*                                                                         *)
(* Part III models create: the roster is parsed row by row into teams,     *)
(* which are handed to the creation view.                                  *)
(*                                                                         *)
(* Part IV models end in a guild that changes while end is suspended: the  *)
(* categories, channels and roles are captured, previewed and handed to    *)
(* the end view, whose confirmation calls the deletion flow.               *)
(*                                                                         *)
(* Part V models the persistent team button of the announcement.           *)
(***************************************************************************)
EXTENDS Integers, Sequences, FiniteSets, TLC

\* Number of interactions delivered to the views in one behaviour.
MaxInteractions == 3

\* Number of confirmation views sent in one behaviour.
MaxViews == 1

\* Number of move / remove commands invoked in one behaviour.
MaxCommands == 2

\* Number of rows of the roster given to create.
MaxRows == 3

\* Number of presses of the team button in one behaviour.
MaxPresses == 2

VARIABLES
    views,      \* view objects by class name: original_author, children, finished
    message,    \* the buttons as last rendered on the view's message
    tasks,      \* button callbacks suspended in interaction.response.edit_message
    calls,      \* per view: how often the gated action was started
    responses,  \* per view: what was sent in response to interactions
    log,        \* history: every interaction delivered, with the view's state then
    held,       \* per view: what its constructor stored for the callback
    flows       \* the callbacks invoked, with their arguments and whether they returned

gateVars == <<views, message, tasks, calls, responses, log, held, flows>>

VARIABLES
    api,           \* management API: the users recorded for each team
    member_roles,  \* chat platform: the roles each member holds
    cmd,           \* the move / remove command in progress and its locals
    sent,          \* what the command in progress has sent to ctx
    trace,         \* history: API calls and role changes of the command in progress
    before,        \* history: api and member_roles when the command was invoked
    ncmds          \* commands invoked so far

memberVars == <<api, member_roles, cmd, sent, trace, before, ncmds>>

VARIABLES
    csv_rows,   \* the rows csv.DictReader yields for the roster given to create
    createcmd   \* the create command: its position, its teams dict, what it sent

createVars == <<csv_rows, createcmd>>

VARIABLES
    guild,      \* chat platform: the guild's categories with their channels, and its roles
    endcmd      \* the end command: its position, its locals, what it sent

endVars == <<guild, endcmd>>

VARIABLES
    press,      \* the press of the team button in progress: its position, user, outcome
    npresses    \* history: how often the team button was pressed

infoVars == <<press, npresses>>

vars == <<gateVars, memberVars, createVars, endVars, infoVars>>

----------------------------------------------------------------------------
(* Part I: the confirmation views                                          *)

Users == {"admin", "bystander"}

\* create, end and announce are commands of the codejam group, which only
\* holders of Roles.admins may invoke.
Authors == {"admin"}

Creation == "JamCreationConfirmation"
End      == "JamEndConfirmation"
TeamInfo == "JamTeamInfoConfirmation"
Gates == {Creation, End, TeamInfo}

\* The button whose callback carries out the gated action.
ConfirmItem(g) == IF g = TeamInfo THEN "announce" ELSE "confirm"

Items(g) == {"cancel", ConfirmItem(g)}

ConfirmLabel(g) == IF g = TeamInfo THEN "Announce teams" ELSE "Confirm"

\* The view as constructed: the labels of the button decorators, nothing
\* disabled, not finished.
NewView(g, author) ==
    [ original_author |-> author,
      children |-> [i \in Items(g) |->
                      [ label    |-> IF i = "cancel" THEN "Cancel" ELSE ConfirmLabel(g),
                        disabled |-> FALSE ]],
      finished |-> FALSE ]

\* View.stop()
stop(v) == [v EXCEPT !.finished = TRUE]

\* An interaction_check that lets everyone through.
interaction_check_anyone(v, user) == TRUE

interaction_check(v, user) == user = v.original_author

\* cancel, up to its await of edit_message (the same in the three classes).
cancel_begin(g, v) ==
    [v EXCEPT !.children["cancel"].label = "Cancelled",
              !.children["cancel"].disabled = TRUE,
              !.children[ConfirmItem(g)].disabled = TRUE]

\* cancel, after edit_message returned.
cancel_end(v) == stop(v)

\* confirm of JamCreationConfirmation and JamEndConfirmation, up to its await
\* of edit_message.
confirm_begin(v) ==
    [v EXCEPT !.children["confirm"].label = "Confirmed",
              !.children["confirm"].disabled = TRUE,
              !.children["cancel"].disabled = TRUE]

\* confirm that forgets self.stop().
confirm_end_without_stop(v) == v

\* confirm, after edit_message returned and before the callback is awaited.
confirm_end(v) == stop(v)

\* announce of JamTeamInfoConfirmation, up to its await of edit_message: it
\* stops the view before awaiting.
announce_begin(v) ==
    stop([v EXCEPT !.children["announce"].label = "Teams have been announced!",
                   !.children["announce"].disabled = TRUE,
                   !.children["cancel"].disabled = TRUE])

begin(g, item, v) ==
    IF item = "cancel" THEN cancel_begin(g, v)
    ELSE IF item = "announce" THEN announce_begin(v)
    ELSE confirm_begin(v)

\* The states of the gate, read from the view.
IsCancelled(v) == v.children["cancel"].label = "Cancelled"

IsConfirmed(g, v) == v.children[ConfirmItem(g)].label # ConfirmLabel(g)

IsPending(g, v) == ~v.finished /\ ~IsCancelled(v) /\ ~IsConfirmed(g, v)

Rejection(user) == [to |-> user, kind |-> "rejection", ephemeral |-> TRUE]

Edit(user) == [to |-> user, kind |-> "edit_message", ephemeral |-> FALSE]

InitGates ==
    /\ views = << >>
    /\ message = << >>
    /\ tasks = {}
    /\ calls = [g \in Gates |-> 0]
    /\ responses = [g \in Gates |-> << >>]
    /\ log = << >>
    /\ held = << >>
    /\ flows = << >>

\* A view is constructed with ctx.author as original_author and with what its
\* callback will be given (teams; category_channels and roles), and is sent.
SendView(g, author, args) ==
    /\ g \notin DOMAIN views
    /\ views' = (g :> NewView(g, author)) @@ views
    /\ message' = (g :> NewView(g, author).children) @@ message
    /\ held' = (g :> args) @@ held
    /\ UNCHANGED <<tasks, calls, responses, log, flows>>

\* Constructor arguments that play no part.
NoArgs == [unspecified |-> TRUE]

\* The command sends the view: create, end or announce constructs it with
\* ctx.author as original_author.
Present(g, author) ==
    /\ Cardinality(DOMAIN views) < MaxViews
    /\ SendView(g, author, NoArgs)
    /\ UNCHANGED <<memberVars, createVars, endVars, infoVars>>

\* The three views are constructed with the default timeout: a view that
\* received nothing for that long is finished, its message left as it is.
Timeout(g) ==
    /\ g \in DOMAIN views
    /\ ~views[g].finished
    /\ \A t \in tasks : t.view # g
    /\ views' = [views EXCEPT ![g] = stop(@)]
    /\ UNCHANGED <<message, tasks, calls, responses, log, held, flows>>
    /\ UNCHANGED <<memberVars, createVars, endVars, infoVars>>

\* An interaction of `user` with button `item` of view g is delivered.
Dispatch(g, user, item) ==
    /\ g \in DOMAIN views
    /\ item \in Items(g)
    /\ Len(log) < MaxInteractions
    /\ UNCHANGED <<memberVars, createVars, endVars, infoVars>>
    /\ UNCHANGED <<held, flows>>
    /\ log' = Append(log, [ view |-> g, user |-> user, item |-> item,
                            pending |-> IsPending(g, views[g]),
                            finished |-> views[g].finished ])
    /\ IF views[g].finished
       THEN \* no longer in the view store: nothing runs
            UNCHANGED <<views, message, tasks, calls, responses>>
       ELSE IF ~interaction_check(views[g], user)
       THEN /\ responses' = [responses EXCEPT ![g] = Append(@, Rejection(user))]
            /\ UNCHANGED <<views, message, tasks, calls>>
       ELSE /\ views' = [views EXCEPT ![g] = begin(g, item, @)]
            /\ tasks' = tasks \cup
                 { [ view |-> g, item |-> item, interaction |-> Len(log) + 1,
                     user |-> user,
                     payload |-> begin(g, item, views[g]).children ] }
            /\ UNCHANGED <<message, calls, responses>>

\* Interactions delivered at any time, as the library's task per interaction
\* allows.
Interact(g, user, item) == Dispatch(g, user, item)

\* Interactions delivered one at a time: no callback is suspended.
InteractInTurn(g, user, item) == tasks = {} /\ Dispatch(g, user, item)

\* edit_message returns and the callback runs to its end: the message shows
\* the buttons as they were sent, the view is stopped, and confirm / announce
\* start the gated action.
Resume(t) ==
    /\ t \in tasks
    /\ tasks' = tasks \ {t}
    /\ message' = [message EXCEPT ![t.view] = t.payload]
    /\ responses' = [responses EXCEPT ![t.view] = Append(@, Edit(t.user))]
    /\ views' = [views EXCEPT ![t.view] =
                   IF t.item = "cancel" THEN cancel_end(@)
                   ELSE IF t.item = "confirm" THEN confirm_end(@)
                   ELSE @]
    /\ calls' = [calls EXCEPT ![t.view] = IF t.item = "cancel" THEN @ ELSE @ + 1]
    /\ flows' = IF t.item = "cancel" THEN flows
                ELSE Append(flows, [view |-> t.view, args |-> held[t.view], returned |-> FALSE])
    /\ UNCHANGED <<log, held>>
    /\ UNCHANGED <<memberVars, createVars, endVars, infoVars>>

----------------------------------------------------------------------------
(* Part II: move and remove                                                *)

Members == {"m1", "m2"}

\* The teams the management API knows, by id; a team's name is its id here.
Teams == {"A", "B"}

\* Names an operator may give to move: the known teams and one unknown.
TeamNames == Teams \cup {"X"}

TEAM_LEADER_ROLE_NAME == "Team Leader"

\* The roles of the guild, by id.
RoleIds == {"role_A", "role_B", "role_leader", "role_participants"}

discord_role_id(t) == IF t = "A" THEN "role_A" ELSE "role_B"

RoleName(r) ==
    CASE r = "role_A" -> "A"
      [] r = "role_B" -> "B"
      [] r = "role_leader" -> TEAM_LEADER_ROLE_NAME
      [] OTHER -> "Code Jam Participants"

\* Statuses with which a call to the management API may fail.
ErrorStatuses == {400, 404, 500}

OK == 200

\* A team as the management API returns it.
TeamRecord(t) ==
    [id |-> t, name |-> t, discord_role_id |-> discord_role_id(t), users |-> api[t]]

NoTeam == [id |-> "none", name |-> "none", discord_role_id |-> "none", users |-> {}]

Idle ==
    [ name |-> "none", pc |-> "idle", member |-> "none", new_team_name |-> "none",
      team_to_move_in |-> NoTeam, team |-> [team |-> NoTeam, user_id |-> "none"],
      is_leader |-> FALSE ]

\* The teams on which the API records member m.
TeamsOf(m) == {t \in Teams : \E u \in api[t] : u.user_id = m}

\* GET teams/find?name=...: the team of that name, 404 when there is none;
\* any call may also fail with an error status.
FindResponses(name) ==
    (IF name \in Teams THEN {[status |-> OK, body |-> TeamRecord(name)]}
                       ELSE {[status |-> 404, body |-> NoTeam]})
    \cup {[status |-> s, body |-> NoTeam] : s \in ErrorStatuses}

\* GET users/{id}/current_team
CurrentTeamResponses(m) ==
    (IF TeamsOf(m) # {}
     THEN {[status |-> OK, body |-> [team |-> TeamRecord(t), user_id |-> m]] : t \in TeamsOf(m)}
     ELSE {[status |-> 404, body |-> Idle.team]})
    \cup {[status |-> s, body |-> Idle.team] : s \in ErrorStatuses}

\* DELETE teams/{id}/users/{user_id}: removes the user from the team, 400
\* when the user is not on it.
DeleteStatuses(t, m) ==
    (IF t \in TeamsOf(m) THEN {OK} ELSE {400}) \cup ErrorStatuses

ApiDelete(t, m) == [api EXCEPT ![t] = {u \in @ : u.user_id # m}]

\* POST teams/{id}/users/{user_id}?is_leader=...: adds the user to the team,
\* 400 when the user is on it already.
PostStatuses(t, m) ==
    (IF t \in TeamsOf(m) THEN {400} ELSE {OK}) \cup ErrorStatuses

\* str(is_leader), as the query parameter carries the flag.
PyStr(b) == IF b THEN "True" ELSE "False"

\* The API's reading of a boolean query parameter.
ParseBool(s) == s \in {"True", "true", "1"}

ApiPost(t, m, param) ==
    [api EXCEPT ![t] = @ \cup {[user_id |-> m, is_leader |-> ParseBool(param)]}]

ApiCall(op, team, status, param) ==
    [op |-> op, team |-> team, status |-> status, param |-> param]

RoleChange(op, role) == [op |-> op, team |-> role, status |-> 0, param |-> ""]

\* The messages the commands send.
MsgNoSuchTeam == ":x: Team ... does not exists in the database!"

MsgWentWrong == "Something went wrong while processing the request! We have notified the team!"

MsgNotParticipant == ":x: It seems like the user is not a participant!"

MsgDeleteNotFound == ":x: Team or user could not be found!"

MsgNotPartOfTeam == ":x: The member given is not part of the team! (Might have been removed already)"

MsgPostNotFound == ":x: Team or user could not be found."

MsgAlreadyIn == ":x: user ... is already in ..."

MsgMoved == "Success! Participant ... has been moved from ... to ..."

MsgRemoved == "Successfully removed ... from team ..."

\* The API records every member on at most one team, with one record; the
\* roles a member holds are whatever the guild has given them.
ApiStates ==
    { a \in [Teams -> SUBSET [user_id : Members, is_leader : BOOLEAN]] :
        \A m \in Members :
            Cardinality({<<t, u>> \in Teams \X [user_id : Members, is_leader : BOOLEAN] :
                            u \in a[t] /\ u.user_id = m}) <= 1 }

InitMembers ==
    /\ api \in ApiStates
    /\ member_roles \in [Members -> SUBSET RoleIds]
    /\ cmd = Idle
    /\ sent = << >>
    /\ trace = << >>
    /\ before = [api |-> api, member_roles |-> member_roles]
    /\ ncmds = 0

\* ---- move -------------------------------------------------------------

\* The command is invoked and awaits GET teams/find.
move(member, new_team_name) ==
    /\ cmd.pc = "idle"
    /\ ncmds < MaxCommands
    /\ ncmds' = ncmds + 1
    /\ cmd' = [Idle EXCEPT !.name = "move", !.pc = "find", !.member = member,
                           !.new_team_name = new_team_name]
    /\ sent' = << >>
    /\ trace' = << >>
    /\ before' = [api |-> api, member_roles |-> member_roles]
    /\ UNCHANGED <<api, member_roles>>
    /\ UNCHANGED <<gateVars, createVars, endVars, infoVars>>

\* Except blocks that lack their return.
move_after_find_no_return(status) == "current_team"

move_after_delete_no_return(status) == "remove_roles"

move_after_post_no_return(status) == "add_roles"

\* Where move goes on after each of its API calls: every except block ends in
\* return.
move_after_find(status) == IF status = OK THEN "current_team" ELSE "done"

move_after_current_team(status) == IF status = OK THEN "delete" ELSE "done"

move_after_delete(status) == IF status = OK THEN "remove_roles" ELSE "done"

\* The 400 branch formats its message with team_to_move_in['team']['name'];
\* team_to_move_in is the team itself and has no key 'team', so the lookup
\* raises KeyError before anything is sent.
move_after_post(status) ==
    IF status = OK THEN "add_roles"
    ELSE IF status = 400 THEN "raised"
    ELSE "done"

\* What the except blocks send.
move_find_report(status) ==
    IF status = OK THEN << >>
    ELSE IF status = 404 THEN <<MsgNoSuchTeam>>
    ELSE <<MsgWentWrong>>

current_team_report(status) ==
    IF status = OK THEN << >>
    ELSE IF status = 404 THEN <<MsgNotParticipant>>
    ELSE <<MsgWentWrong>>

delete_report(status) ==
    IF status = OK THEN << >>
    ELSE IF status = 404 THEN <<MsgDeleteNotFound>>
    ELSE IF status = 400 THEN <<MsgNotPartOfTeam>>
    ELSE <<MsgWentWrong>>

move_post_report(status) ==
    IF status = OK THEN << >>
    ELSE IF status = 404 THEN <<MsgPostNotFound>>
    ELSE IF status = 400 THEN << >>
    ELSE <<MsgWentWrong>>

move_find ==
    /\ cmd.name = "move" /\ cmd.pc = "find"
    /\ \E r \in FindResponses(cmd.new_team_name) :
        /\ trace' = Append(trace, ApiCall("GET teams/find", cmd.new_team_name, r.status, ""))
        /\ cmd' = [cmd EXCEPT !.team_to_move_in = r.body, !.pc = move_after_find(r.status)]
        /\ sent' = sent \o move_find_report(r.status)
    /\ UNCHANGED <<api, member_roles, before, ncmds>>
    /\ UNCHANGED <<gateVars, createVars, endVars, infoVars>>

move_current_team ==
    /\ cmd.name = "move" /\ cmd.pc = "current_team"
    /\ \E r \in CurrentTeamResponses(cmd.member) :
        /\ trace' = Append(trace, ApiCall("GET current_team", r.body.team.id, r.status, ""))
        /\ cmd' = [cmd EXCEPT !.team = r.body, !.pc = move_after_current_team(r.status)]
        /\ sent' = sent \o current_team_report(r.status)
    /\ UNCHANGED <<api, member_roles, before, ncmds>>
    /\ UNCHANGED <<gateVars, createVars, endVars, infoVars>>

move_delete ==
    /\ cmd.name = "move" /\ cmd.pc = "delete"
    /\ \E status \in DeleteStatuses(cmd.team.team.id, cmd.team.user_id) :
        /\ trace' = Append(trace, ApiCall("DELETE", cmd.team.team.id, status, ""))
        /\ api' = IF status = OK THEN ApiDelete(cmd.team.team.id, cmd.team.user_id) ELSE api
        /\ cmd' = [cmd EXCEPT !.pc = move_after_delete(status)]
        /\ sent' = sent \o delete_report(status)
    /\ UNCHANGED <<member_roles, before, ncmds>>
    /\ UNCHANGED <<gateVars, createVars, endVars, infoVars>>

\* A scan that does not compare the user id.
move_is_leader_any_member(members, member) ==
    \E memb \in members : memb.is_leader

\* The scan of the former team's users for the member's leader flag.
move_is_leader(members, member) ==
    \E memb \in members : memb.user_id = member /\ memb.is_leader

\* await member.remove_roles(team_role), then the leader scan.
move_remove_roles ==
    /\ cmd.name = "move" /\ cmd.pc = "remove_roles"
    /\ member_roles' = [member_roles EXCEPT ![cmd.member] = @ \ {cmd.team.team.discord_role_id}]
    /\ trace' = Append(trace, RoleChange("remove_roles", cmd.team.team.discord_role_id))
    /\ cmd' = [cmd EXCEPT !.is_leader = move_is_leader(cmd.team.team.users, cmd.member),
                          !.pc = "post"]
    /\ UNCHANGED <<api, sent, before, ncmds>>
    /\ UNCHANGED <<gateVars, createVars, endVars, infoVars>>

move_post ==
    /\ cmd.name = "move" /\ cmd.pc = "post"
    /\ \E status \in PostStatuses(cmd.team_to_move_in.id, cmd.member) :
        /\ trace' = Append(trace, ApiCall("POST", cmd.team_to_move_in.id, status, PyStr(cmd.is_leader)))
        /\ api' = IF status = OK
                  THEN ApiPost(cmd.team_to_move_in.id, cmd.member, PyStr(cmd.is_leader))
                  ELSE api
        /\ cmd' = [cmd EXCEPT !.pc = move_after_post(status)]
        /\ sent' = sent \o move_post_report(status)
    /\ UNCHANGED <<member_roles, before, ncmds>>
    /\ UNCHANGED <<gateVars, createVars, endVars, infoVars>>

\* await member.add_roles(role of the target team)
move_add_roles ==
    /\ cmd.name = "move" /\ cmd.pc = "add_roles"
    /\ member_roles' = [member_roles EXCEPT ![cmd.member] = @ \cup {cmd.team_to_move_in.discord_role_id}]
    /\ trace' = Append(trace, RoleChange("add_roles", cmd.team_to_move_in.discord_role_id))
    /\ cmd' = [cmd EXCEPT !.pc = "send"]
    /\ UNCHANGED <<api, sent, before, ncmds>>
    /\ UNCHANGED <<gateVars, createVars, endVars, infoVars>>

move_send ==
    /\ cmd.name = "move" /\ cmd.pc = "send"
    /\ sent' = Append(sent, MsgMoved)
    /\ cmd' = [cmd EXCEPT !.pc = "done"]
    /\ UNCHANGED <<api, member_roles, trace, before, ncmds>>
    /\ UNCHANGED <<gateVars, createVars, endVars, infoVars>>

\* ---- remove -----------------------------------------------------------

remove(member) ==
    /\ cmd.pc = "idle"
    /\ ncmds < MaxCommands
    /\ ncmds' = ncmds + 1
    /\ cmd' = [Idle EXCEPT !.name = "remove", !.pc = "current_team", !.member = member]
    /\ sent' = << >>
    /\ trace' = << >>
    /\ before' = [api |-> api, member_roles |-> member_roles]
    /\ UNCHANGED <<api, member_roles>>
    /\ UNCHANGED <<gateVars, createVars, endVars, infoVars>>

remove_after_current_team(status) == IF status = OK THEN "delete" ELSE "done"

\* A remove that goes on to the role cleanup when the record is already gone.
remove_after_delete_cleanup_on_404(status) ==
    IF status \in {OK, 404} THEN "remove_roles" ELSE "done"

remove_after_delete(status) == IF status = OK THEN "remove_roles" ELSE "done"

remove_current_team ==
    /\ cmd.name = "remove" /\ cmd.pc = "current_team"
    /\ \E r \in CurrentTeamResponses(cmd.member) :
        /\ trace' = Append(trace, ApiCall("GET current_team", r.body.team.id, r.status, ""))
        /\ cmd' = [cmd EXCEPT !.team = r.body, !.pc = remove_after_current_team(r.status)]
        /\ sent' = sent \o current_team_report(r.status)
    /\ UNCHANGED <<api, member_roles, before, ncmds>>
    /\ UNCHANGED <<gateVars, createVars, endVars, infoVars>>

remove_delete ==
    /\ cmd.name = "remove" /\ cmd.pc = "delete"
    /\ \E status \in DeleteStatuses(cmd.team.team.id, cmd.team.user_id) :
        /\ trace' = Append(trace, ApiCall("DELETE", cmd.team.team.id, status, ""))
        /\ api' = IF status = OK THEN ApiDelete(cmd.team.team.id, cmd.team.user_id) ELSE api
        /\ cmd' = [cmd EXCEPT !.pc = remove_after_delete(status)]
        /\ sent' = sent \o delete_report(status)
    /\ UNCHANGED <<member_roles, before, ncmds>>
    /\ UNCHANGED <<gateVars, createVars, endVars, infoVars>>

\* await member.remove_roles(team_role)
remove_remove_roles ==
    /\ cmd.name = "remove" /\ cmd.pc = "remove_roles"
    /\ member_roles' = [member_roles EXCEPT ![cmd.member] = @ \ {cmd.team.team.discord_role_id}]
    /\ trace' = Append(trace, RoleChange("remove_roles", cmd.team.team.discord_role_id))
    /\ cmd' = [cmd EXCEPT !.pc = "leader_roles"]
    /\ UNCHANGED <<api, sent, before, ncmds>>
    /\ UNCHANGED <<gateVars, createVars, endVars, infoVars>>

\* A loop that strips the leader role only from recorded leaders.
remove_leader_roles_if_leader(roles, team, member) ==
    IF \E u \in team.users : u.user_id = member /\ u.is_leader
    THEN {role \in roles : RoleName(role) = TEAM_LEADER_ROLE_NAME}
    ELSE {}

\* The roles the loop over member.roles removes.
remove_leader_roles(roles, team, member) ==
    {role \in roles : RoleName(role) = TEAM_LEADER_ROLE_NAME}

\* for role in member.roles: remove the ones named TEAM_LEADER_ROLE_NAME
remove_strip_leader ==
    /\ cmd.name = "remove" /\ cmd.pc = "leader_roles"
    /\ LET gone == remove_leader_roles(member_roles[cmd.member], cmd.team.team, cmd.member)
       IN  /\ member_roles' = [member_roles EXCEPT ![cmd.member] = @ \ gone]
           /\ trace' = IF gone = {} THEN trace
                       ELSE Append(trace, RoleChange("remove_roles", "role_leader"))
    /\ cmd' = [cmd EXCEPT !.pc = "send"]
    /\ UNCHANGED <<api, sent, before, ncmds>>
    /\ UNCHANGED <<gateVars, createVars, endVars, infoVars>>

remove_send ==
    /\ cmd.name = "remove" /\ cmd.pc = "send"
    /\ sent' = Append(sent, MsgRemoved)
    /\ cmd' = [cmd EXCEPT !.pc = "done"]
    /\ UNCHANGED <<api, member_roles, trace, before, ncmds>>
    /\ UNCHANGED <<gateVars, createVars, endVars, infoVars>>

\* The command has returned (or raised) and the next may be invoked.
Return ==
    /\ cmd.pc \in {"done", "raised"}
    /\ cmd' = Idle
    /\ sent' = << >>
    /\ trace' = << >>
    /\ before' = [api |-> api, member_roles |-> member_roles]
    /\ UNCHANGED <<api, member_roles, ncmds>>
    /\ UNCHANGED <<gateVars, createVars, endVars, infoVars>>

NextMembers ==
    \/ \E m \in Members, n \in TeamNames : move(m, n)
    \/ move_find
    \/ move_current_team
    \/ move_delete
    \/ move_remove_roles
    \/ move_post
    \/ move_add_roles
    \/ move_send
    \/ \E m \in Members : remove(m)
    \/ remove_current_team
    \/ remove_delete
    \/ remove_remove_roles
    \/ remove_strip_leader
    \/ remove_send
    \/ Return

\* No command in progress, nobody on a team.
MembersAtRest ==
    /\ api = [t \in Teams |-> {}]
    /\ member_roles = [m \in Members |-> {}]
    /\ cmd = Idle
    /\ sent = << >>
    /\ trace = << >>
    /\ before = [api |-> api, member_roles |-> member_roles]
    /\ ncmds = 0

----------------------------------------------------------------------------
(* Part III: create                                                        *)

\* The members get_or_fetch_member finds in the guild, by id.
GuildMemberIds == {1, 2}

\* The values of the three columns in the rosters considered: two team names,
\* the ids of two members and of nobody, and three leader flags.
RowValues ==
    [ team_name : {"A", "B"}, member_id : {"1", "2", "3"}, team_leader : {"Y", "y", "N"} ]

Rosters == UNION { [1..n -> RowValues] : n \in 0..MaxRows }

\* int(row["Team Member Discord ID"])
ParseInt(str) ==
    CASE str = "1" -> 1
      [] str = "2" -> 2
      [] str = "3" -> 3

\* get_or_fetch_member(ctx.guild, id): the member, None when there is none.
None == 0

get_or_fetch_member(id) == IF id \in GuildMemberIds THEN id ELSE None

\* str.upper() on the leader flags.
Upper(str) ==
    CASE str = "y" -> "Y"
      [] str = "n" -> "N"
      [] OTHER -> str

\* A comparison that forgets upper().
row_is_leader_case_sensitive(row) == row.team_leader = "Y"

\* row["Team Leader"].upper() == "Y"
row_is_leader(row) == Upper(row.team_leader) = "Y"

\* teams[key], of a defaultdict(list): a missing key is created empty.
DefaultDictGet(teams, key) == IF key \in DOMAIN teams THEN teams[key] ELSE << >>

\* teams[row["Team Name"]].append({"member": member, "is_leader": ...})
TeamsAppend(teams, row, member) ==
    (row.team_name :> Append(DefaultDictGet(teams, row.team_name),
                             [member |-> member, is_leader |-> row_is_leader(row)]))
    @@ teams

\* The sources create may be given its roster by.
Sources == {"url", "attachment", "none"}

MsgBadResponse == "Got a bad response from the URL: ..."

CreateIdle ==
    [ pc |-> "idle", author |-> "none", i |-> 0, teams |-> << >>,
      sent |-> << >>, description |-> -1 ]

CreateAtRest ==
    /\ csv_rows = << >>
    /\ createcmd = CreateIdle

InitCreates ==
    /\ csv_rows \in Rosters
    /\ createcmd = CreateIdle

\* create is invoked and obtains the roster: from the link (any status but
\* 200 ends the command), from the attachment, or from neither (BadArgument).
create(author, source, status) ==
    /\ createcmd.pc = "idle"
    /\ createcmd' =
         IF source = "url" /\ status # 200
         THEN [createcmd EXCEPT !.pc = "done", !.author = author,
                                !.sent = <<MsgBadResponse>>]
         ELSE IF source = "none"
         THEN [createcmd EXCEPT !.pc = "raised", !.author = author]
         ELSE [createcmd EXCEPT !.pc = "rows", !.author = author, !.i = 1]
    /\ UNCHANGED csv_rows
    /\ UNCHANGED <<gateVars, memberVars, endVars, infoVars>>

\* One turn of the loop over the reader: the row's member is looked up; a row
\* without member is passed over, any other is appended to its team's list.
create_row ==
    /\ createcmd.pc = "rows"
    /\ createcmd.i <= Len(csv_rows)
    /\ LET row == csv_rows[createcmd.i]
           member == get_or_fetch_member(ParseInt(row.member_id))
       IN  createcmd' =
             [createcmd EXCEPT !.i = @ + 1,
                               !.teams = IF member = None THEN @
                                         ELSE TeamsAppend(@, row, member)]
    /\ UNCHANGED csv_rows
    /\ UNCHANGED <<gateVars, memberVars, endVars, infoVars>>

\* After the last row: the warning with len(teams), sent with the
\* confirmation view that holds teams.
create_send ==
    /\ createcmd.pc = "rows"
    /\ createcmd.i > Len(csv_rows)
    /\ createcmd' = [createcmd EXCEPT !.pc = "done",
                                      !.description = Cardinality(DOMAIN createcmd.teams)]
    /\ SendView(Creation, createcmd.author, [teams |-> createcmd.teams])
    /\ UNCHANGED csv_rows
    /\ UNCHANGED <<memberVars, endVars, infoVars>>

NextCreate ==
    \/ \E a \in Authors, src \in Sources, st \in {200, 404} : create(a, src, st)
    \/ create_row
    \/ create_send

----------------------------------------------------------------------------
(* Part IV: end                                                            *)

\* _creation_utils.CATEGORY_NAME, the name of the jam's categories.
CATEGORY_NAME == "Code Jam"

\* The guilds considered: a category of another name that stays, a jam
\* category that is there or not, with or without a channel, and the role of
\* team A, there or not; the role of team B is never in the guild.
Other == [name |-> "General", channels |-> {"g"}]

GuildStates ==
    [ categories : {("c2" :> Other)} \cup
                   {("c1" :> [name |-> CATEGORY_NAME, channels |-> cs]) @@ ("c2" :> Other) :
                      cs \in SUBSET {"x"}},
      roles : SUBSET {discord_role_id("A")} ]

\* jam_categories(guild)
jam_categories(g) == {c \in DOMAIN g.categories : g.categories[c].name = CATEGORY_NAME}

\* category.channels of a category object: the guild's channels in that
\* category at the time of asking, none once the category is gone.
channels(g, c) == IF c \in DOMAIN g.categories THEN g.categories[c].channels ELSE {}

\* jam_roles(guild, mgmt_client): the guild's roles of the API's teams, or
\* None when the API call fails.
RolesNone == [is_none |-> TRUE, roles |-> {}]

jam_roles(g, ok) ==
    IF ok THEN [is_none |-> FALSE, roles |-> {discord_role_id(t) : t \in Teams} \cap g.roles]
          ELSE RolesNone

\* `not x` of a list or None.
Not(x) == x = {}

\* An end without its early return.
nothing_to_delete_never(categories, roles) == FALSE

\* not categories and not roles
nothing_to_delete(categories, roles) == Not(categories) /\ Not(roles.roles)

\* The text listing what will be deleted.
Details(category_channels, roles) ==
    [ categories |-> {<<c, category_channels[c]>> : c \in DOMAIN category_channels},
      roles |-> roles ]

MsgAlreadyDeleted == ":x: The Code Jam channels and roles have already been deleted! "

MsgAreYouSure == "Are you sure?"

MsgEnded == "Code Jam has officially ended! :sunrise:"

EndIdle ==
    [ pc |-> "idle", author |-> "none", categories |-> {}, roles |-> RolesNone,
      category_channels |-> << >>, details |-> Details(<< >>, {}), url |-> FALSE,
      sent |-> << >> ]

EndAtRest ==
    /\ guild = [categories |-> << >>, roles |-> {}]
    /\ endcmd = EndIdle

InitEnds ==
    /\ guild \in GuildStates
    /\ endcmd = EndIdle

\* Channels, categories and roles are created and deleted in the guild while
\* the command runs.
GuildChange ==
    /\ endcmd.pc \in {"jam_roles", "paste", "wait"}
    /\ guild' \in GuildStates \ {guild}
    /\ UNCHANGED endcmd
    /\ UNCHANGED <<gateVars, memberVars, createVars, infoVars>>

\* end is invoked: the jam categories are listed and jam_roles is awaited.
end(author) ==
    /\ endcmd.pc = "idle"
    /\ endcmd' = [endcmd EXCEPT !.pc = "jam_roles", !.author = author,
                                !.categories = jam_categories(guild)]
    /\ UNCHANGED guild
    /\ UNCHANGED <<gateVars, memberVars, createVars, infoVars>>

\* jam_roles returns.  With nothing to delete end says so and returns.
\* Otherwise the channels of the categories are copied and the details are
\* written; `for role in roles` raises TypeError when roles is None.  The
\* details are then given to the paste service.
end_jam_roles ==
    /\ endcmd.pc = "jam_roles"
    /\ \E ok \in BOOLEAN :
         LET roles == jam_roles(guild, ok)
             category_channels == [c \in endcmd.categories |-> channels(guild, c)]
         IN  endcmd' =
               IF nothing_to_delete(endcmd.categories, roles)
               THEN [endcmd EXCEPT !.roles = roles, !.pc = "done",
                                   !.sent = Append(@, MsgAlreadyDeleted)]
               ELSE IF roles.is_none
               THEN [endcmd EXCEPT !.roles = roles, !.pc = "raised",
                                   !.category_channels = category_channels]
               ELSE [endcmd EXCEPT !.roles = roles, !.pc = "paste",
                                   !.category_channels = category_channels,
                                   !.details = Details(category_channels, roles.roles)]
    /\ UNCHANGED guild
    /\ UNCHANGED <<gateVars, memberVars, createVars, infoVars>>

\* A view that is given the guild's categories, channels and roles as they
\* are when it is built.
confirm_view_args_listed_anew(ec, g) ==
    [ category_channels |-> [c \in jam_categories(g) |-> channels(g, c)],
      roles |-> jam_roles(g, TRUE).roles ]

\* JamEndConfirmation(category_channels, roles, ...): the view is given the
\* very category_channels and roles the details were written from.
confirm_view_args(ec, g) ==
    [category_channels |-> ec.category_channels, roles |-> ec.roles.roles]

\* The paste service answers with a url or not; the warning is sent with the
\* confirmation view, which holds category_channels and roles, and end waits
\* for the view.
end_paste ==
    /\ endcmd.pc = "paste"
    /\ \E url \in BOOLEAN :
         endcmd' = [endcmd EXCEPT !.pc = "wait", !.url = url,
                                  !.sent = Append(@, MsgAreYouSure)]
    /\ SendView(End, endcmd.author, confirm_view_args(endcmd, guild))
    /\ UNCHANGED guild
    /\ UNCHANGED <<memberVars, createVars, infoVars>>

\* confirm_view.wait() returns once the view is finished, and end sends its
\* last message.
end_after_wait ==
    /\ endcmd.pc = "wait"
    /\ views[End].finished
    /\ endcmd' = [endcmd EXCEPT !.pc = "done", !.sent = Append(@, MsgEnded)]
    /\ UNCHANGED guild
    /\ UNCHANGED <<gateVars, memberVars, createVars, infoVars>>

\* deletion_flow returns: the channels of the categories it was given, the
\* categories and the roles are deleted.
deletion_flow_returns(k) ==
    /\ k \in 1..Len(flows)
    /\ flows[k].view = End
    /\ ~flows[k].returned
    /\ flows' = [flows EXCEPT ![k].returned = TRUE]
    /\ guild' = [ categories |-> [c \in DOMAIN guild.categories \ DOMAIN flows[k].args.category_channels
                                    |-> guild.categories[c]],
                  roles |-> guild.roles \ flows[k].args.roles ]
    /\ UNCHANGED <<views, message, tasks, calls, responses, log, held>>
    /\ UNCHANGED endcmd
    /\ UNCHANGED <<memberVars, createVars, infoVars>>

NextEnd ==
    \/ \E a \in Authors : end(a)
    \/ end_jam_roles
    \/ end_paste
    \/ end_after_wait
    \/ GuildChange
    \/ \E u \in Users, i \in {"cancel", "confirm"} : Interact(End, u, i)
    \/ \E t \in tasks : Resume(t)
    \/ Timeout(End)
    \/ \E k \in 1..MaxInteractions : deletion_flow_returns(k)

----------------------------------------------------------------------------
(* Part V: the team button                                                 *)

discord_channel_id(t) == IF t = "A" THEN "channel_A" ELSE "channel_B"

NoEmbed == [title |-> "none", channel |-> "none", members |-> {}]

\* The embed show_team builds from the answer of users/{id}/current_team.
response_embed(team) ==
    [ title |-> team.team.name,
      channel |-> discord_channel_id(team.team.id),
      members |-> {member.user_id : member \in team.team.users} ]

MsgNotAParticipant == "It seems like you are not a participant!"

MsgSomethingWentWrong == "Something went wrong!"

\* err.response == 404: err.response is the response object of the failed
\* call, which no int is equal to, whatever its status.
response_equals(response, n) == FALSE

\* await interaction.response.send_message(...)
send_message(answers, content, embed) ==
    Append(answers, [content |-> content, embed |-> embed])

\* interaction.response.send_message(...) without await: the coroutine is
\* created and never run, nothing is sent.
send_message_not_awaited(answers, content, embed) == answers

PressIdle ==
    [pc |-> "idle", user |-> "none", status |-> 0, answers |-> << >>, errors |-> << >>]

InfoAtRest ==
    /\ press = PressIdle
    /\ npresses = 0

\* The button is on the announcement; the API holds any teams.
InitInfos ==
    /\ api \in ApiStates
    /\ member_roles = [m \in Members |-> {}]
    /\ cmd = Idle
    /\ sent = << >>
    /\ trace = << >>
    /\ before = [api |-> api, member_roles |-> member_roles]
    /\ ncmds = 0
    /\ InfoAtRest

\* A user presses "Show me my team!": show_team awaits
\* GET users/{id}/current_team.  The view has no interaction_check and no
\* timeout.
show_team(user) ==
    /\ press.pc \in {"idle", "done"}
    /\ npresses < MaxPresses
    /\ npresses' = npresses + 1
    /\ press' = [PressIdle EXCEPT !.pc = "current_team", !.user = user]
    /\ UNCHANGED <<gateVars, memberVars, createVars, endVars>>

\* The API answers: the embed is sent, or the except block runs.
show_team_after_current_team ==
    /\ press.pc = "current_team"
    /\ \E r \in CurrentTeamResponses(press.user) :
         LET err == [response |-> [status |-> r.status]]
         IN  press' =
               IF r.status = OK
               THEN [press EXCEPT !.pc = "done", !.status = r.status,
                                  !.answers = send_message(@, "", response_embed(r.body))]
               ELSE IF response_equals(err.response, 404)
               THEN [press EXCEPT !.pc = "done", !.status = r.status,
                                  !.answers = send_message_not_awaited(@, MsgNotAParticipant, NoEmbed)]
               ELSE [press EXCEPT !.pc = "done", !.status = r.status,
                                  !.answers = send_message_not_awaited(@, MsgSomethingWentWrong, NoEmbed),
                                  !.errors = Append(@, err.response)]
    /\ UNCHANGED npresses
    /\ UNCHANGED <<gateVars, memberVars, createVars, endVars>>

NextInfo ==
    \/ \E u \in Members : show_team(u)
    \/ show_team_after_current_team

----------------------------------------------------------------------------
(* Specifications                                                          *)

NextGate ==
    \/ \E g \in Gates, u \in Authors : Present(g, u)
    \/ \E g \in Gates : Timeout(g)
    \/ \E g \in Gates, u \in Users, i \in {"cancel", "confirm", "announce"} : Interact(g, u, i)
    \/ \E t \in tasks : Resume(t)

NextGateInTurn ==
    \/ \E g \in Gates, u \in Authors : Present(g, u)
    \/ \E g \in Gates : Timeout(g)
    \/ \E g \in Gates, u \in Users, i \in {"cancel", "confirm", "announce"} : InteractInTurn(g, u, i)
    \/ \E t \in tasks : Resume(t)

\* The views under the library's scheduling.
InitGate == InitGates /\ MembersAtRest /\ CreateAtRest /\ EndAtRest /\ InfoAtRest

SpecGate == InitGate /\ [][NextGate]_vars

\* The views with every callback run to completion before the next
\* interaction is delivered.
SpecGateInTurn == InitGate /\ [][NextGateInTurn]_vars

InitCreate == InitCreates /\ InitGates /\ MembersAtRest /\ EndAtRest /\ InfoAtRest

\* create on every roster of up to MaxRows rows.
SpecCreate == InitCreate /\ [][NextCreate]_vars

InitEnd == InitEnds /\ InitGates /\ MembersAtRest /\ CreateAtRest /\ InfoAtRest

\* end, its confirmation view and the deletion flow.
SpecEnd == InitEnd /\ [][NextEnd]_vars

\* move and remove, one command at a time.
InitMember == InitMembers /\ InitGates /\ CreateAtRest /\ EndAtRest /\ InfoAtRest

SpecMembers == InitMember /\ [][NextMembers]_vars

InitInfo == InitInfos /\ InitGates /\ CreateAtRest /\ EndAtRest

\* Presses of the team button, one at a time.
SpecInfo == InitInfo /\ [][NextInfo]_vars

----------------------------------------------------------------------------
(* Properties of the confirmation views                                    *)

Author(g) == views[g].original_author

\* The interactions in which the original author pressed `item` of view g
\* while the gate was pending.
Accepted(g, item) ==
    { i \in 1..Len(log) :
        /\ log[i].view = g
        /\ log[i].item = item
        /\ log[i].user = Author(g)
        /\ log[i].pending }

\* C1: with interactions handled one at a time, a confirm of the original
\* author on a pending creation or teardown gate invokes the callback exactly
\* once, and nothing delivered afterwards invokes it again.
C1_ConfirmInvokesCallbackOnce ==
    \A g \in DOMAIN views \cap {Creation, End} :
        /\ calls[g] <= 1
        /\ (tasks = {} /\ Accepted(g, "confirm") # {}) => calls[g] = 1

\* A confirmed gate whose callback ran once and which was pressed again later.
C1_Witness ==
    \E g \in DOMAIN views \cap {Creation, End} :
        /\ tasks = {}
        /\ calls[g] = 1
        /\ \E i \in Accepted(g, "confirm") :
             \E j \in (i + 1)..Len(log) :
                 log[j].view = g /\ log[j].user = Author(g) /\ log[j].item = "confirm"

\* C2: the gated action is started only by a confirm of the original author
\* on a pending gate, and never once the original author has cancelled the
\* pending gate.
C2_CallbackOnlyByPendingConfirm ==
    \A g \in DOMAIN views :
        /\ calls[g] > 0 => Accepted(g, ConfirmItem(g)) # {}
        /\ Accepted(g, "cancel") # {} => calls[g] = 0

\* C3: an interaction of anyone but the original author with a view that is
\* still active is answered with the ephemeral rejection and changes nothing
\* else: the view, its message, the callbacks run and the tasks in progress
\* stay as they are.
C3_OtherUserRejected ==
    [][ \A g \in DOMAIN views :
          ( /\ Len(log') = Len(log) + 1
            /\ log'[Len(log')].view = g
            /\ log'[Len(log')].user # Author(g)
            /\ ~views[g].finished )
          => /\ responses'[g] = Append(responses[g], Rejection(log'[Len(log')].user))
             /\ views' = views
             /\ message' = message
             /\ calls' = calls
             /\ tasks' = tasks ]_vars

\* A pending gate that has just rejected somebody else's interaction.
C3_Witness ==
    \E g \in DOMAIN views :
        /\ IsPending(g, views[g])
        /\ message[g] = NewView(g, Author(g)).children
        /\ Len(log) > 0
        /\ log[Len(log)].view = g
        /\ log[Len(log)].user # Author(g)
        /\ log[Len(log)].pending
        /\ Len(responses[g]) > 0
        /\ responses[g][Len(responses[g])] = Rejection(log[Len(log)].user)

----------------------------------------------------------------------------
(* Properties of move and remove                                           *)

Called(op, status) == \E i \in 1..Len(trace) : trace[i].op = op /\ trace[i].status = status

Failed(op) == \E i \in 1..Len(trace) : trace[i].op = op /\ trace[i].status # OK

Issued(op) == \E i \in 1..Len(trace) : trace[i].op = op

Ended == cmd.pc \in {"done", "raised"}

FormerTeam == cmd.team.team.id

FormerRole == cmd.team.team.discord_role_id

\* The member was recorded as a leader of the team they were on.
LedFormerTeam ==
    \E u \in before.api[FormerTeam] : u.user_id = cmd.member /\ u.is_leader

LeadsTargetTeam ==
    \E u \in api[cmd.team_to_move_in.id] : u.user_id = cmd.member /\ u.is_leader

\* C4: during move and remove no role changes before the DELETE of the
\* membership has succeeded, no role is gained before the POST into the
\* target team has succeeded, and after a failed DELETE the roles are as they
\* were when the command was invoked.
C4_RolesFollowApi ==
    cmd.pc # "idle" =>
        /\ member_roles # before.member_roles => Called("DELETE", OK)
        /\ (\E m \in Members : ~(member_roles[m] \subseteq before.member_roles[m]))
              => cmd.name = "move" /\ Called("POST", OK)
        /\ Failed("DELETE") => member_roles = before.member_roles

\* A move that ended on a failed DELETE with the member still holding the
\* role of their team.
C4_Witness ==
    /\ cmd.name = "move"
    /\ cmd.pc = "done"
    /\ Failed("DELETE")
    /\ FormerRole \in member_roles[cmd.member]

\* C5: a move whose target team lookup answered 404 issues no DELETE and no
\* POST, changes no role, and leaves memberships and roles as they were.
C5_UnknownTargetNoMutation ==
    (cmd.name = "move" /\ Called("GET teams/find", 404)) =>
        /\ ~Issued("DELETE")
        /\ ~Issued("POST")
        /\ ~Issued("remove_roles")
        /\ ~Issued("add_roles")
        /\ api = before.api
        /\ member_roles = before.member_roles

\* A finished move to a team name the API does not know, of a member who is
\* on a team and holds its role.
C5_Witness ==
    /\ cmd.name = "move"
    /\ cmd.pc = "done"
    /\ cmd.new_team_name \notin Teams
    /\ Called("GET teams/find", 404)
    /\ \E t \in TeamsOf(cmd.member) : discord_role_id(t) \in member_roles[cmd.member]

\* C6: the is_leader value move sends with the POST is the member's flag in
\* the former team's users, and after a successful move the member leads the
\* target team exactly if they led the former team.
C6_LeaderFlagPreserved ==
    cmd.name = "move" =>
        /\ \A i \in 1..Len(trace) :
              trace[i].op = "POST" => trace[i].param = PyStr(LedFormerTeam)
        /\ (cmd.pc = "done" /\ Called("POST", OK)) => (LeadsTargetTeam <=> LedFormerTeam)

\* A leader moved to another team, on which they lead again.
C6_Witness ==
    /\ cmd.name = "move"
    /\ cmd.pc = "done"
    /\ Called("POST", OK)
    /\ cmd.team_to_move_in.id # FormerTeam
    /\ LedFormerTeam
    /\ LeadsTargetTeam

\* C7: a move whose POST fails with 400 or 404 sends the report of that
\* case, ends normally and grants no role.
C7_InsertFailureReported ==
    (cmd.name = "move" /\ Ended /\ (Called("POST", 400) \/ Called("POST", 404))) =>
        /\ cmd.pc = "done"
        /\ sent = IF Called("POST", 404) THEN <<MsgPostNotFound>> ELSE <<MsgAlreadyIn>>
        /\ member_roles[cmd.member] \subseteq before.member_roles[cmd.member]

\* C8: a move whose DELETE succeeded and whose POST failed ends with the
\* former team's role removed and nothing else changed among the roles, the
\* former membership deleted and nothing else changed in the API, and the
\* member on no team.
C8_NoCompensation ==
    (cmd.name = "move" /\ Ended /\ Called("DELETE", OK) /\ Failed("POST")) =>
        /\ member_roles = [before.member_roles EXCEPT ![cmd.member] = @ \ {FormerRole}]
        /\ api = [before.api EXCEPT ![FormerTeam] = {u \in @ : u.user_id # cmd.member}]
        /\ TeamsOf(cmd.member) = {}

\* Such a move of a member who held the former team's role.
C8_Witness ==
    /\ cmd.name = "move"
    /\ Ended
    /\ Called("DELETE", OK)
    /\ Failed("POST")
    /\ FormerRole \in before.member_roles[cmd.member]
    /\ FormerRole \notin member_roles[cmd.member]

\* C9 as stated: a remove whose DELETE answered 404 reports "not found" and
\* still attempts to remove the team's role.
C9_RoleRemovalAttemptedOn404 ==
    (cmd.name = "remove" /\ cmd.pc = "done" /\ Called("DELETE", 404)) =>
        /\ sent = <<MsgDeleteNotFound>>
        /\ Issued("remove_roles")

\* C9 amended: a remove whose DELETE answered 404 reports "Team or user could
\* not be found!" and ends there: no role removal is attempted, and roles and
\* memberships are as they were.
C9_AbortsOn404 ==
    (cmd.name = "remove" /\ cmd.pc = "done" /\ Called("DELETE", 404)) =>
        /\ sent = <<MsgDeleteNotFound>>
        /\ ~Issued("remove_roles")
        /\ member_roles = before.member_roles
        /\ api = before.api

\* A remove ended by a 404 on DELETE, the member still holding the team's role.
C9_Witness ==
    /\ cmd.name = "remove"
    /\ cmd.pc = "done"
    /\ Called("DELETE", 404)
    /\ FormerRole \in member_roles[cmd.member]

C11_RemoveChangesOnlyTeamRole ==
    (cmd.name = "remove" /\ cmd.pc = "done" /\ Called("DELETE", OK)) =>
        member_roles = [before.member_roles EXCEPT ![cmd.member] = @ \ {FormerRole}]

\* The roles agree with the API: a member holds the role of a team exactly
\* if the API records them on that team.
Consistent(a, roles) ==
    \A m \in Members, t \in Teams :
        discord_role_id(t) \in roles[m] <=> \E u \in a[t] : u.user_id = m

\* C18: a move or remove invoked when the roles agree with the API has ended
\* (normally or not, whatever the API calls answered) with the roles agreeing
\* with the API again; by induction the same holds after any sequence of
\* commands run one at a time.
C18_ConsistentAtRest ==
    (Ended /\ Consistent(before.api, before.member_roles)) => Consistent(api, member_roles)

\* A move from a consistent state that deleted the membership, removed the
\* role and then failed to insert.
C18_Witness ==
    /\ cmd.name = "move"
    /\ Ended
    /\ Consistent(before.api, before.member_roles)
    /\ Called("DELETE", OK)
    /\ Failed("POST")
    /\ FormerRole \in before.member_roles[cmd.member]

----------------------------------------------------------------------------
(* Properties of the confirmation views, continued                         *)

\* The step delivers an interaction of the original author with `item` of
\* the pending view g.
AcceptedStep(g, item) ==
    /\ Len(log') = Len(log) + 1
    /\ log'[Len(log')].view = g
    /\ log'[Len(log')].item = item
    /\ log'[Len(log')].user = Author(g)
    /\ log'[Len(log')].pending

\* C14: the creation and teardown gates leave PENDING only by an accepted
\* confirm or cancel of the original author (there is no timeout), and a
\* confirmed or cancelled gate keeps its state.
C14_NoTimeout ==
    [][ \A g \in DOMAIN views \cap {Creation, End} :
          /\ (IsPending(g, views[g]) /\ ~IsPending(g, views'[g]))
                => (AcceptedStep(g, "confirm") \/ AcceptedStep(g, "cancel"))
          /\ IsConfirmed(g, views[g]) => (IsConfirmed(g, views'[g]) /\ ~IsCancelled(views'[g]))
          /\ IsCancelled(views[g]) => (IsCancelled(views'[g]) /\ ~IsConfirmed(g, views'[g])) ]_vars

\* C17: with interactions interleaving at the awaits, once the original
\* author has confirmed the pending creation or teardown gate the callback is
\* invoked at most once and the gate does not become cancelled as well,
\* whatever is delivered while the confirm is suspended in its message edit.
C17_OneTerminalTransition ==
    \A g \in DOMAIN views \cap {Creation, End} :
        Accepted(g, "confirm") # {} =>
            /\ calls[g] <= 1
            /\ ~(IsConfirmed(g, views[g]) /\ IsCancelled(views[g]))

----------------------------------------------------------------------------
(* Properties of create                                                    *)

Resolves(row) == ParseInt(row.member_id) \in GuildMemberIds

\* The rows of team `name` whose member resolves, in the order of the roster.
ResolvedRows(name) ==
    SelectSeq(csv_rows, LAMBDA row : row.team_name = name /\ Resolves(row))

\* What the roster assigns to team `name`.
Assignment(name) ==
    [ k \in 1..Len(ResolvedRows(name)) |->
        [ member    |-> ParseInt(ResolvedRows(name)[k].member_id),
          is_leader |-> ResolvedRows(name)[k].team_leader \in {"Y", "y"} ] ]

\* The team names of the roster.
RosterTeams == { csv_rows[k].team_name : k \in 1..Len(csv_rows) }

Parsed == createcmd.pc = "done" /\ Creation \in DOMAIN views

\* C15: whatever the roster, create gets to its confirmation, and the teams
\* it hands to the view hold for each team name exactly the rows of that team
\* whose member resolves, in roster order, is_leader set exactly for the flag
\* "Y" in either case; rows that do not resolve add no key.
C15_RosterParsing ==
    /\ createcmd.pc # "raised" \/ createcmd.i = 0
    /\ Parsed =>
         /\ \A name \in RosterTeams :
               DefaultDictGet(held[Creation].teams, name) = Assignment(name)
         /\ DOMAIN held[Creation].teams = { name \in RosterTeams : Assignment(name) # << >> }

\* A parsed roster with a row that did not resolve, a team of two members in
\* roster order, and a leader flagged in lower case.
C15_Witness ==
    /\ Parsed
    /\ \E k \in 1..Len(csv_rows) : ~Resolves(csv_rows[k])
    /\ \E name \in DOMAIN held[Creation].teams :
          /\ Len(held[Creation].teams[name]) = 2
          /\ held[Creation].teams[name][1].member = 2
          /\ held[Creation].teams[name][2].is_leader
    /\ \E k \in 1..Len(csv_rows) : csv_rows[k].team_leader = "y" /\ Resolves(csv_rows[k])

\* C16: every team named in the roster is an entry of the teams handed to
\* the view, empty if none of its rows resolved, and is counted in the number
\* of teams the warning shows.
C16_EmptyTeamKept ==
    Parsed =>
        /\ DOMAIN held[Creation].teams = RosterTeams
        /\ createcmd.description = Cardinality(RosterTeams)

(***************************************************************************)
(* Properties of end.                                                      *)
(***************************************************************************)

\* end has listed the jam categories and has the answer of jam_roles.
Looked == endcmd.pc \notin {"idle", "jam_roles"}

\* end found no jam category and the lookup gave no jam role.
NothingFound ==
    /\ Looked
    /\ endcmd.categories = {}
    /\ ~endcmd.roles.is_none
    /\ endcmd.roles.roles = {}

\* C12: an end that finds no jam category and no jam role says that all is
\* deleted already and returns: no confirmation view is sent, the deletion
\* flow is never called and the message that the jam has ended is not sent.
C12_NothingToDelete ==
    NothingFound =>
        /\ endcmd.pc = "done"
        /\ endcmd.sent = <<MsgAlreadyDeleted>>
        /\ End \notin DOMAIN views
        /\ flows = << >>

\* An end that found nothing while the guild holds a category of another name.
C12_Witness ==
    /\ NothingFound
    /\ endcmd.pc = "done"
    /\ \E c \in DOMAIN guild.categories : guild.categories[c].name # CATEGORY_NAME


\* C13: what the deletion flow is called with on confirm is what end
\* captured and wrote into the details: the categories listed when end was
\* invoked, the channels copied from them and the roles, whatever has been
\* created or deleted in the guild since.
C13_SnapshotActedOn ==
    \A k \in 1..Len(flows) :
        flows[k].view = End =>
            /\ DOMAIN flows[k].args.category_channels = endcmd.categories
            /\ flows[k].args.category_channels = endcmd.category_channels
            /\ flows[k].args.roles = endcmd.roles.roles
            /\ Details(flows[k].args.category_channels, flows[k].args.roles) = endcmd.details

\* The deletion flow has been called and has not returned, and the guild's
\* jam categories, their channels or its jam roles are no longer those of
\* the details.
C13_Witness ==
    \E k \in 1..Len(flows) :
        /\ flows[k].view = End
        /\ ~flows[k].returned
        /\ Details([c \in jam_categories(guild) |-> channels(guild, c)],
                   jam_roles(guild, TRUE).roles) # endcmd.details

\* The deletion flow was called for the end view and has returned.
Deleted == \E k \in 1..Len(flows) : flows[k].view = End /\ flows[k].returned

\* C19: end sends the message that the jam has ended only if its author
\* confirmed and the deletion flow has returned; not after a cancel, and not
\* after the view closed with no confirmation.
C19_EndedOnlyAfterDeletion ==
    (\E n \in 1..Len(endcmd.sent) : endcmd.sent[n] = MsgEnded) =>
        /\ Accepted(End, "confirm") # {}
        /\ Deleted

\* C20: end says that all is deleted already only when the lookup of the
\* roles succeeded with no role and there is no jam category; and when the
\* lookup failed while there are jam categories, end raises nothing and gets
\* to send its confirmation view.
C20_FailedLookupIsNotEmpty ==
    /\ (\E n \in 1..Len(endcmd.sent) : endcmd.sent[n] = MsgAlreadyDeleted) =>
          /\ ~endcmd.roles.is_none
          /\ endcmd.roles.roles = {}
          /\ endcmd.categories = {}
    /\ Looked /\ endcmd.roles.is_none /\ endcmd.categories # {} =>
          /\ endcmd.pc # "raised"
          /\ endcmd.pc \in {"wait", "done"} => End \in DOMAIN views

(***************************************************************************)
(* Properties of move across its steps, and of the team button.            *)
(***************************************************************************)

\* The records the API holds of member m, each with its team.
RecordsOf(m) == {<<t, u>> \in Teams \X [user_id : Members, is_leader : BOOLEAN] :
                    u \in api[t] /\ u.user_id = m}

\* C21: in every state of a move, between its steps and after a failure, the
\* API records the moved member on at most one team; a POST into the target
\* team is issued only after a DELETE from the former team that succeeded,
\* and never after a DELETE that failed.
C21_AtMostOneTeam ==
    cmd.name = "move" =>
        /\ Cardinality(TeamsOf(cmd.member)) <= 1
        /\ Cardinality(RecordsOf(cmd.member)) <= 1
        /\ \A j \in 1..Len(trace) :
              trace[j].op = "POST" =>
                  \E i \in 1..(j - 1) : trace[i].op = "DELETE" /\ trace[i].status = OK
        /\ Failed("DELETE") => ~Issued("POST")

\* A move from one team to another whose DELETE and POST both succeeded: the
\* member is on the target team alone.
C21_Witness ==
    /\ cmd.name = "move"
    /\ Called("DELETE", OK)
    /\ Called("POST", OK)
    /\ FormerTeam # cmd.team_to_move_in.id
    /\ TeamsOf(cmd.member) = {cmd.team_to_move_in.id}

\* C22: a press of the team button is answered exactly once: with the
\* embed of the user's team when the lookup succeeded, with the message that
\* the user is no participant when it failed with 404, and with the message
\* that something went wrong, together with an error log, when it failed
\* with any other status.
C22_OneResponsePerPress ==
    press.pc = "done" =>
        /\ Len(press.answers) = 1
        /\ press.status = OK =>
              /\ press.answers[1].embed # NoEmbed
              /\ press.answers[1].embed.title \in TeamsOf(press.user)
              /\ press.errors = << >>
        /\ press.status = 404 =>
              /\ press.answers[1].content = MsgNotAParticipant
              /\ press.errors = << >>
        /\ press.status \notin {OK, 404} =>
              /\ press.answers[1].content = MsgSomethingWentWrong
              /\ Len(press.errors) = 1

====
